---- MODULE Spec2Model ----
(***************************************************************************)
(* CA Suite frontend: the upload forms (GST notice, Tally import in its    *)
(* two variants) and the /api/generate text-completion bridge.             *)
(*                                                                         *)
(* Each page is a React component; one page is mounted per behaviour       *)
(* (variable page).  A handleSubmit invocation runs synchronously up to    *)
(* its first await; each await is a separate step.  fetch() settles when   *)
(* the response headers (status) arrive, res.json() settles when the body  *)
(* has been read and parsed.                                               *)
(***************************************************************************)
EXTENDS Integers, Sequences, FiniteSets, TLC

(* ---------------- bounds of the model ---------------- *)
MaxSubmits == 2      \* handleSubmit invocations per mounted form
MaxRequests == 2     \* HTTP requests reaching /api/generate

Files == {"a.pdf", "b.pdf"}
\* the selections of supporting documents tried: none, one, two in either order
SupportSelections == {<<>>, <<"a.pdf">>, <<"a.pdf", "b.pdf">>, <<"b.pdf", "a.pdf">>}
NoFile == "<none>"   \* null / undefined file state (falsy)

(* ---------------- JavaScript values ---------------- *)
Undefined == [t |-> "undefined"]
JNull == [t |-> "null"]
Val(v) == [t |-> "val", v |-> v]

\* JavaScript truthiness of a tagged value holding a string
Truthy(x) == x.t = "val" /\ x.v # ""

\* x || d for a tagged string value
OrElse(x, d) == IF Truthy(x) THEN x.v ELSE d

\* x || [] for a tagged array value (every array is truthy)
OrEmptyArray(x) == IF x.t = "val" THEN x.v ELSE <<>>

(* ---------------- FormData ---------------- *)
\* FormData.append(name, value): entries keep insertion order
FormDataAppend(fd, name, value) == Append(fd, <<name, value>>)

\* FormData.getAll(name): the values under a field name, in order
RECURSIVE FormDataGetAll(_, _)
FormDataGetAll(fd, name) ==
  IF fd = <<>> THEN <<>>
  ELSE IF Head(fd)[1] = name
       THEN <<Head(fd)[2]>> \o FormDataGetAll(Tail(fd), name)
       ELSE FormDataGetAll(Tail(fd), name)

\* supportFiles.forEach((file) => formData.append('additional_documents', file))
RECURSIVE AppendEach(_, _, _)
AppendEach(fd, name, files) ==
  IF files = <<>> THEN fd
  ELSE AppendEach(FormDataAppend(fd, name, Head(files)), name, Tail(files))

\* mutant: the supporting documents are appended last-to-first
RECURSIVE AppendEachReversed(_, _, _)
AppendEachReversed(fd, name, files) ==
  IF files = <<>> THEN fd
  ELSE FormDataAppend(AppendEachReversed(fd, name, Tail(files)), name, Head(files))

GSTNotice_encode_reversed(nf, sf) ==
  AppendEachReversed(FormDataAppend(<<>>, "notice", nf), "additional_documents", sf)

\* gst.js 19-23: the payload of the notice submission
GSTNotice_encode(nf, sf) ==
  AppendEach(FormDataAppend(<<>>, "notice", nf), "additional_documents", sf)

\* TallyImport 18-19 (both variants): the payload of the Tally submission
TallyImport_encode(f) == FormDataAppend(<<>>, "file", f)

(* ---------------- HTTP exchange ---------------- *)
Statuses == {200, 500}
ResOk(status) == status >= 200 /\ status <= 299

FetchOutcomes == Statuses \cup {0}    \* 0: fetch rejects (network unreachable)

NotJSON == [kind |-> "notjson"]
Json(d) == [kind |-> "json", data |-> d]
Obj(o) == [t |-> "obj", o |-> o]

\* bodies the notice endpoint may send
GSTObjects ==
  [reply : {Undefined, Val(""), Val("Dear Sir...")},
   missing_documents : {Undefined, Val(<<>>), Val(<<"PAN card", "Form 16">>)}]
GSTBodies == {NotJSON, Json(JNull)} \cup {Json(Obj(o)) : o \in GSTObjects}

\* bodies the tabular endpoint may send; an absent field reads as undefined
Totals2 == [Debit |-> 1000, Credit |-> 1000]
Totals1 == [Amount |-> 250]
TallyObject(rows, row_count, totals, error) ==
  [rows |-> rows, row_count |-> row_count, totals |-> totals, error |-> error]
TallyObjects ==
  { TallyObject(Val(42), Undefined, Val(Totals2), Undefined),
    TallyObject(Undefined, Val(42), Val(Totals2), Undefined),
    TallyObject(Val(7), Undefined, Val(Totals1), Undefined),
    TallyObject(Val(0), Undefined, Undefined, Undefined),
    TallyObject(Undefined, Undefined, Undefined, Val("Unsupported file type")),
    TallyObject(Undefined, Undefined, Undefined, Undefined) }
TallyBodies == {NotJSON, Json(JNull)} \cup {Json(Obj(o)) : o \in TallyObjects}

\* /api/generate: request methods and prompts, downstream results
Methods == {"GET", "POST"}
Prompts == {"Hello, CA Suite!", "Draft a reply"}
DownError == [kind |-> "error"]
DownOk(data) == [kind |-> "ok", data |-> data]
DownData == [reply : {Undefined, Val(""), Val("Dear client")}]
DownOutcomes == {DownError} \cup {DownOk(d) : d \in DownData}
NoDown == [kind |-> "none"]

\* res.status(code).json(body)
Response(code, body) == [status |-> code, body |-> body]
MessageBody(m) == [reply |-> Undefined, message |-> Val(m)]
ReplyBody(r) == [reply |-> r, message |-> Undefined]

\* one HTTP request to /api/generate
\*   sent: the bodies posted downstream; out: the responses written
BridgeIdle ==
  [pc |-> "idle", method |-> "", prompt |-> "", sent |-> <<>>, down |-> NoDown, out |-> <<>>]

\* Clients page: what the user types, what GET /clients may return
Names == {"", "Asha Traders", "Ravi & Co"}
Emails == {"", "accounts@asha.in"}
Client(id, n, e) == [id |-> id, name |-> n, email |-> e]
ExistingClient == Client(1, "Mehta Associates", Undefined)
ClientLists == {<<>>, <<ExistingClient>>}

\* the fetchClients call: not started (page not mounted), awaiting axios.get, settled
FetchNotStarted == [pc |-> "none", data |-> <<>>]
FetchPending == [pc |-> "await", data |-> <<>>]
FetchDone(pc, data) == [pc |-> pc, data |-> data]

\* email || undefined
OrUndefined(e) == IF e # "" THEN Val(e) ELSE Undefined

\* a submission in flight or finished
\*   pc: "fetch" awaiting fetch(), "json" awaiting res.json(),
\*       "ok" try block completed, "failed" catch block ran
NewRequest == [pc |-> "fetch", status |-> 0]
AfterFetch(status) == [pc |-> "json", status |-> status]
Finished(pc) == [pc |-> pc, status |-> 0]

VARIABLES
  page,          \* which page is mounted
  calls,         \* handleSubmit invocations so far
  reqs,          \* the submissions that reached fetch(), in start order
  payload,       \* the FormData handed to the most recent fetch()
  loading,       \* useState(false)
  noticeFile,    \* GSTNotice: useState(null)
  supportFiles,  \* GSTNotice: useState([])
  reply,         \* GSTNotice: useState('')
  missing,       \* GSTNotice: useState([])
  file,          \* TallyImport: useState(null)
  result,        \* TallyImport: useState(null)
  lastBody,      \* the body most recently consumed by `await res.json()`
  breqs,         \* /api/generate: the HTTP requests and what the handler did for each
  clients,       \* Clients: useState([])
  name,          \* Clients: useState('')
  email,         \* Clients: useState('')
  error,         \* Clients: useState('')
  cfetch,        \* Clients: the fetchClients call started by useEffect on mount
  posts          \* Clients: the handleSubmit calls that reached axios.post, in start order

vars == <<page, calls, reqs, payload, loading, noticeFile, supportFiles, reply, missing,
          file, result, lastBody, breqs, clients, name, email, error, cfetch, posts>>

gstVars == <<noticeFile, supportFiles, reply, missing>>
tallyVars == <<file, result>>
clientVars == <<clients, name, email, error, cfetch, posts>>

\* gst.js, unnamed/part_001 (Tally import), README.md 74-138 (Tally data import)
\* frontend/pages/api/generate.js, unnamed/part_003 (Clients)
Pages == {"gst", "tally", "tallyData", "generate", "clients"}

Init ==
  /\ page \in Pages
  /\ calls = 0
  /\ reqs = <<>>
  /\ payload = <<>>
  /\ loading = FALSE
  /\ noticeFile = NoFile
  /\ supportFiles = <<>>
  /\ reply = Val("")
  /\ missing = <<>>
  /\ file = NoFile
  /\ result = JNull
  /\ lastBody = NotJSON
  /\ breqs = [r \in 1..MaxRequests |-> BridgeIdle]
  /\ clients = <<>>
  /\ name = ""
  /\ email = ""
  /\ error = ""
  /\ cfetch = IF page = "clients" THEN FetchPending ELSE FetchNotStarted
  /\ posts = <<>>

(* ---------------- GSTNotice (gst.js) ---------------- *)
\* onChange of the notice input: setNoticeFile(e.target.files[0])
GSTNotice_setNoticeFile(f) ==
  /\ page = "gst"
  /\ noticeFile' = f
  /\ UNCHANGED <<page, calls, reqs, payload, loading, supportFiles, reply, missing, tallyVars, lastBody, breqs, clientVars>>

\* onChange of the supporting input: setSupportFiles(Array.from(e.target.files))
GSTNotice_setSupportFiles(fs) ==
  /\ page = "gst"
  /\ supportFiles' = fs
  /\ UNCHANGED <<page, calls, reqs, payload, loading, noticeFile, reply, missing, tallyVars, lastBody, breqs, clientVars>>

\* mutant: handleSubmit without the `if (!noticeFile) return` guard
GSTNotice_handleSubmit_unguarded ==
  /\ page = "gst"
  /\ calls < MaxSubmits
  /\ calls' = calls + 1
  /\ loading' = TRUE
  /\ reqs' = Append(reqs, NewRequest)
  /\ payload' = GSTNotice_encode(noticeFile, supportFiles)
  /\ UNCHANGED <<page, gstVars, tallyVars, lastBody, breqs, clientVars>>

\* handleSubmit up to `await fetch(...)`
GSTNotice_handleSubmit ==
  /\ page = "gst"
  /\ calls < MaxSubmits
  /\ calls' = calls + 1
  /\ IF noticeFile = NoFile
     THEN UNCHANGED <<reqs, payload, loading>>
     ELSE /\ loading' = TRUE
          /\ reqs' = Append(reqs, NewRequest)
          /\ payload' = GSTNotice_encode(noticeFile, supportFiles)
  /\ UNCHANGED <<page, gstVars, tallyVars, lastBody, breqs, clientVars>>

\* `await fetch(...)` settles: resolved with a status, or rejected
GSTNotice_fetchSettles(i, outcome) ==
  /\ page = "gst"
  /\ i \in DOMAIN reqs
  /\ reqs[i].pc = "fetch"
  /\ IF outcome = 0
     THEN \* catch: console.error(err); finally: setLoading(false)
          /\ reqs' = [reqs EXCEPT ![i] = Finished("failed")]
          /\ loading' = FALSE
     ELSE /\ reqs' = [reqs EXCEPT ![i] = AfterFetch(outcome)]
          /\ UNCHANGED loading
  /\ UNCHANGED <<page, calls, payload, gstVars, tallyVars, lastBody, breqs, clientVars>>

\* `await res.json()` settles: parsed data, or rejected
GSTNotice_jsonSettles(i, body) ==
  /\ page = "gst"
  /\ i \in DOMAIN reqs
  /\ reqs[i].pc = "json"
  /\ IF body.kind = "json" /\ body.data.t = "obj"
     THEN \* setReply(data.reply); setMissing(data.missing_documents || [])
          /\ reply' = body.data.o.reply
          /\ missing' = OrEmptyArray(body.data.o.missing_documents)
          /\ reqs' = [reqs EXCEPT ![i] = Finished("ok")]
     ELSE \* SyntaxError from json(), or TypeError reading null.reply: catch
          /\ reqs' = [reqs EXCEPT ![i] = Finished("failed")]
          /\ UNCHANGED <<reply, missing>>
  /\ loading' = FALSE
  /\ lastBody' = body
  /\ UNCHANGED <<page, calls, payload, noticeFile, supportFiles, tallyVars, breqs, clientVars>>

GSTNotice ==
  \/ \E f \in Files \cup {NoFile} : GSTNotice_setNoticeFile(f)
  \/ \E fs \in SupportSelections : GSTNotice_setSupportFiles(fs)
  \/ GSTNotice_handleSubmit
  \/ \E i \in 1..MaxSubmits, outcome \in FetchOutcomes : GSTNotice_fetchSettles(i, outcome)
  \/ \E i \in 1..MaxSubmits, body \in GSTBodies : GSTNotice_jsonSettles(i, body)

(* ---------------- TallyImport (unnamed/part_001) ---------------- *)
\* handleFileChange: setFile(e.target.files[0])
TallyImport_handleFileChange(f) ==
  /\ page = "tally"
  /\ file' = f
  /\ UNCHANGED <<page, calls, reqs, payload, loading, result, gstVars, lastBody, breqs, clientVars>>

\* the submit button is rendered with disabled={loading} (line 44), so the
\* submit event reaches handleSubmit only while loading is false
TallyImport_handleSubmit ==
  /\ page = "tally"
  /\ ~loading
  /\ calls < MaxSubmits
  /\ calls' = calls + 1
  /\ IF file = NoFile
     THEN UNCHANGED <<reqs, payload, loading>>
     ELSE /\ reqs' = Append(reqs, NewRequest)
          /\ payload' = TallyImport_encode(file)
          /\ loading' = TRUE
  /\ UNCHANGED <<page, gstVars, tallyVars, lastBody, breqs, clientVars>>

FailedToImport == TallyObject(Undefined, Undefined, Undefined, Val("Failed to import file"))

TallyImport_fetchSettles(i, outcome) ==
  /\ page = "tally"
  /\ i \in DOMAIN reqs
  /\ reqs[i].pc = "fetch"
  /\ IF outcome = 0
     THEN \* catch: setResult({ error: 'Failed to import file' }); finally
          /\ reqs' = [reqs EXCEPT ![i] = Finished("failed")]
          /\ result' = Obj(FailedToImport)
          /\ loading' = FALSE
     ELSE /\ reqs' = [reqs EXCEPT ![i] = AfterFetch(outcome)]
          /\ UNCHANGED <<loading, result>>
  /\ UNCHANGED <<page, calls, payload, file, gstVars, lastBody, breqs, clientVars>>

TallyImport_jsonSettles(i, body) ==
  /\ page = "tally"
  /\ i \in DOMAIN reqs
  /\ reqs[i].pc = "json"
  /\ IF body.kind = "json"
     THEN \* setResult(data)
          /\ result' = body.data
          /\ reqs' = [reqs EXCEPT ![i] = Finished("ok")]
     ELSE \* SyntaxError from json(): catch
          /\ result' = Obj(FailedToImport)
          /\ reqs' = [reqs EXCEPT ![i] = Finished("failed")]
  /\ loading' = FALSE
  /\ lastBody' = body
  /\ UNCHANGED <<page, calls, payload, file, gstVars, breqs, clientVars>>

TallyImport ==
  \/ \E f \in Files \cup {NoFile} : TallyImport_handleFileChange(f)
  \/ TallyImport_handleSubmit
  \/ \E i \in 1..MaxSubmits, outcome \in FetchOutcomes : TallyImport_fetchSettles(i, outcome)
  \/ \E i \in 1..MaxSubmits, body \in TallyBodies : TallyImport_jsonSettles(i, body)

(* ---------------- TallyImport, data import variant (README.md 74-138) ---------------- *)
\* onChange: setFile(e.target.files[0])
TallyData_setFile(f) ==
  /\ page = "tallyData"
  /\ file' = f
  /\ UNCHANGED <<page, calls, reqs, payload, loading, result, gstVars, lastBody, breqs, clientVars>>

TallyData_handleSubmit ==
  /\ page = "tallyData"
  /\ calls < MaxSubmits
  /\ calls' = calls + 1
  /\ IF file = NoFile
     THEN UNCHANGED <<reqs, payload, loading>>
     ELSE /\ loading' = TRUE
          /\ reqs' = Append(reqs, NewRequest)
          /\ payload' = TallyImport_encode(file)
  /\ UNCHANGED <<page, gstVars, tallyVars, lastBody, breqs, clientVars>>

TallyData_fetchSettles(i, outcome) ==
  /\ page = "tallyData"
  /\ i \in DOMAIN reqs
  /\ reqs[i].pc = "fetch"
  /\ IF outcome = 0
     THEN \* catch: console.error(err); finally: setLoading(false)
          /\ reqs' = [reqs EXCEPT ![i] = Finished("failed")]
          /\ loading' = FALSE
     ELSE /\ reqs' = [reqs EXCEPT ![i] = AfterFetch(outcome)]
          /\ UNCHANGED loading
  /\ UNCHANGED <<page, calls, payload, gstVars, tallyVars, lastBody, breqs, clientVars>>

TallyData_jsonSettles(i, body) ==
  /\ page = "tallyData"
  /\ i \in DOMAIN reqs
  /\ reqs[i].pc = "json"
  /\ IF body.kind = "json"
     THEN \* setResult(data)
          /\ result' = body.data
          /\ reqs' = [reqs EXCEPT ![i] = Finished("ok")]
     ELSE \* SyntaxError from json(): catch only logs
          /\ reqs' = [reqs EXCEPT ![i] = Finished("failed")]
          /\ UNCHANGED result
  /\ loading' = FALSE
  /\ lastBody' = body
  /\ UNCHANGED <<page, calls, payload, file, gstVars, breqs, clientVars>>

TallyData ==
  \/ \E f \in Files \cup {NoFile} : TallyData_setFile(f)
  \/ TallyData_handleSubmit
  \/ \E i \in 1..MaxSubmits, outcome \in FetchOutcomes : TallyData_fetchSettles(i, outcome)
  \/ \E i \in 1..MaxSubmits, body \in TallyBodies : TallyData_jsonSettles(i, body)

(* ---------------- /api/generate (frontend/pages/api/generate.js) ---------------- *)
\* mutant: the prompt is forwarded under the key it arrived with
DownstreamBody_prompt(prompt) == [prompt |-> prompt]

\* the body of axios.post(... + '/generate_reply', { message: prompt })
DownstreamBody(prompt) == [message |-> prompt]

\* handler up to `await axios.post(...)`
handler(r, method, prompt) ==
  /\ page = "generate"
  /\ breqs[r].pc = "idle"
  /\ IF method # "POST"
     THEN breqs' = [breqs EXCEPT ![r] =
            [pc |-> "done", method |-> method, prompt |-> prompt, sent |-> <<>>,
             down |-> NoDown,
             out |-> <<Response(405, MessageBody("Method not allowed"))>>]]
     ELSE breqs' = [breqs EXCEPT ![r] =
            [pc |-> "await", method |-> method, prompt |-> prompt,
             sent |-> <<DownstreamBody(prompt)>>, down |-> NoDown, out |-> <<>>]]
  /\ UNCHANGED <<page, calls, reqs, payload, loading, gstVars, tallyVars, lastBody, clientVars>>

\* `await axios.post(...)` settles
handler_axiosSettles(r, d) ==
  /\ page = "generate"
  /\ breqs[r].pc = "await"
  /\ IF d.kind = "ok"
     THEN \* const reply = response.data.reply || ''; res.status(200).json({ reply })
          breqs' = [breqs EXCEPT ![r].pc = "done", ![r].down = d,
                      ![r].out = Append(@, Response(200, ReplyBody(Val(OrElse(d.data.reply, "")))))]
     ELSE \* catch: res.status(500).json({ message: 'Error generating reply' })
          breqs' = [breqs EXCEPT ![r].pc = "done", ![r].down = d,
                      ![r].out = Append(@, Response(500, MessageBody("Error generating reply")))]
  /\ UNCHANGED <<page, calls, reqs, payload, loading, gstVars, tallyVars, lastBody, clientVars>>

Generate ==
  \/ \E r \in 1..MaxRequests, method \in Methods, prompt \in Prompts : handler(r, method, prompt)
  \/ \E r \in 1..MaxRequests, d \in DownOutcomes : handler_axiosSettles(r, d)

(* ---------------- Clients (unnamed/part_003) ---------------- *)
\* onChange of the name input: setName(e.target.value)
Clients_setName(n) ==
  /\ page = "clients"
  /\ name' = n
  /\ UNCHANGED <<page, calls, reqs, payload, loading, gstVars, tallyVars, lastBody, breqs,
                 clients, email, error, cfetch, posts>>

\* onChange of the email input: setEmail(e.target.value)
Clients_setEmail(e) ==
  /\ page = "clients"
  /\ email' = e
  /\ UNCHANGED <<page, calls, reqs, payload, loading, gstVars, tallyVars, lastBody, breqs,
                 clients, name, error, cfetch, posts>>

\* fetchClients: `await axios.get(...)` settles
Clients_fetchClients(ok, list) ==
  /\ page = "clients"
  /\ cfetch.pc = "await"
  /\ IF ok
     THEN \* setClients(data)
          /\ clients' = list
          /\ cfetch' = FetchDone("ok", list)
          /\ UNCHANGED error
     ELSE \* catch: setError('Failed to load clients')
          /\ error' = "Failed to load clients"
          /\ cfetch' = FetchDone("failed", <<>>)
          /\ UNCHANGED clients
  /\ UNCHANGED <<page, calls, reqs, payload, loading, gstVars, tallyVars, lastBody, breqs,
                 name, email, posts>>

\* the closure of a handleSubmit call: the clients, name and email of the
\* render that created it; created is the response of the POST
NewPost == [pc |-> "await", clients |-> clients, name |-> name,
            email |-> OrUndefined(email), created |-> Client(0, "", Undefined)]

\* handleSubmit up to `await axios.post(...)`
Clients_handleSubmit ==
  /\ page = "clients"
  /\ Len(posts) < MaxSubmits
  /\ IF name = ""
     THEN UNCHANGED posts
     ELSE posts' = Append(posts, NewPost)
  /\ UNCHANGED <<page, calls, reqs, payload, loading, gstVars, tallyVars, lastBody, breqs,
                 clients, name, email, error, cfetch>>

\* the client the backend answers a successful POST with
CreatedClient(i) == Client(100 + i, posts[i].name, posts[i].email)

\* `await axios.post(...)` of the i-th creation settles
Clients_postSettles(i, ok) ==
  /\ page = "clients"
  /\ i \in DOMAIN posts
  /\ posts[i].pc = "await"
  /\ IF ok
     THEN \* setClients([...clients, data]); setName(''); setEmail(''); setError('')
          /\ clients' = Append(posts[i].clients, CreatedClient(i))
          /\ name' = ""
          /\ email' = ""
          /\ error' = ""
          /\ posts' = [posts EXCEPT ![i].pc = "ok", ![i].created = CreatedClient(i)]
     ELSE \* catch: setError('Failed to create client')
          /\ error' = "Failed to create client"
          /\ posts' = [posts EXCEPT ![i].pc = "failed"]
          /\ UNCHANGED <<clients, name, email>>
  /\ UNCHANGED <<page, calls, reqs, payload, loading, gstVars, tallyVars, lastBody, breqs,
                 cfetch>>

Clients ==
  \/ \E n \in Names : Clients_setName(n)
  \/ \E e \in Emails : Clients_setEmail(e)
  \/ \E ok \in BOOLEAN, list \in ClientLists : Clients_fetchClients(ok, list)
  \/ Clients_handleSubmit
  \/ \E i \in 1..MaxSubmits, ok \in BOOLEAN : Clients_postSettles(i, ok)

Next == GSTNotice \/ TallyImport \/ TallyData \/ Generate \/ Clients

Spec == Init /\ [][Next]_vars

(* ---------------- what each page renders ---------------- *)
\* Object.entries(o): the [key, value] pairs of an object, as a list
RECURSIVE ObjectEntries(_)
ObjectEntries(o) ==
  IF DOMAIN o = {} THEN <<>>
  ELSE LET k == CHOOSE x \in DOMAIN o : TRUE
       IN <<<<k, o[k]>>>> \o ObjectEntries([x \in DOMAIN o \ {k} |-> o[x]])

NoView == [processing |-> FALSE, error |-> Undefined, rows |-> Undefined, totals |-> <<>>]

\* gst.js 67-83: "Processing", the missing documents, the draft reply;
\* no element of the page shows a failure
GSTNotice_view ==
  [processing |-> loading, error |-> Undefined, rows |-> Undefined, totals |-> <<>>]

\* unnamed/part_001 44-66
TallyImport_view ==
  IF result.t = "obj"
  THEN [processing |-> loading,
        error |-> IF Truthy(result.o.error) THEN result.o.error ELSE Undefined,
        rows |-> result.o.rows,
        totals |-> IF result.o.totals.t = "val"
                   THEN ObjectEntries(result.o.totals.v) ELSE <<>>]
  ELSE [processing |-> loading, error |-> Undefined, rows |-> Undefined, totals |-> <<>>]

\* README.md 120-135: the row count is read from row_count; result.error is not rendered
TallyData_view ==
  IF result.t = "obj"
  THEN [processing |-> loading,
        error |-> Undefined,
        rows |-> result.o.row_count,
        totals |-> IF result.o.totals.t = "val"
                   THEN ObjectEntries(result.o.totals.v) ELSE <<>>]
  ELSE [processing |-> loading, error |-> Undefined, rows |-> Undefined, totals |-> <<>>]

View ==
  CASE page = "gst" -> GSTNotice_view
    [] page = "tally" -> TallyImport_view
    [] page = "tallyData" -> TallyData_view
    [] OTHER -> NoView

(* ---------------- vocabulary of the properties ---------------- *)
PrimaryFile == IF page = "gst" THEN noticeFile ELSE file
Displayed == <<reply, missing, result>>
InFlight == {i \in DOMAIN reqs : reqs[i].pc \in {"fetch", "json"}}
SeqRange(q) == {q[i] : i \in DOMAIN q}

(* ---------------- C1 ---------------- *)
\* C1: a handleSubmit invocation made while no primary file is selected issues
\* no request and leaves loading and the displayed result as they were.
C1_NoFileNoRequest ==
  [][(calls' # calls /\ PrimaryFile = NoFile)
       => (reqs' = reqs /\ payload' = payload /\ loading' = loading
           /\ Displayed' = Displayed)]_vars

\* a submit without a file was made while an earlier submission is in flight
C1_Witness ==
  /\ PrimaryFile = NoFile
  /\ calls = 2
  /\ Len(reqs) = 1
  /\ reqs[1].pc = "fetch"

(* ---------------- C2 ---------------- *)
\* C2: when a later-started submission has already produced its result, the
\* completion of an earlier-started submission does not change what is displayed.
C2_FirstNeverOverwritesSecond ==
  [][\A i \in DOMAIN reqs :
       (/\ reqs[i].pc \in {"fetch", "json"}
        /\ reqs'[i].pc \in {"ok", "failed"}
        /\ \E j \in DOMAIN reqs : j > i /\ reqs[j].pc = "ok")
       => Displayed' = Displayed]_vars

(* ---------------- C3 ---------------- *)
\* C3: at most one request of the form is in flight.
C3_AtMostOneInFlight == Cardinality(InFlight) <= 1

(* ---------------- C4 ---------------- *)
\* C4: a submission that ends in a network failure or a non-2xx status is not
\* recorded as a success and leaves the form showing a failure.
C4_FailureMovesToFailed ==
  [][\A i \in DOMAIN reqs :
       (\/ reqs[i].pc = "fetch" /\ reqs'[i].pc = "failed"
        \/ reqs[i].pc = "json" /\ ~ResOk(reqs[i].status) /\ reqs'[i].pc \in {"ok", "failed"})
       => (reqs'[i].pc = "failed" /\ View'.error # Undefined)]_vars

(* ---------------- C5 ---------------- *)
\* C5: after a submit without a file, a network failure, a non-2xx status or an
\* unparseable body, the page shows a failure message.
C5_ErrorsBecomeMessages ==
  [][(\/ calls' # calls /\ PrimaryFile = NoFile
      \/ \E i \in DOMAIN reqs :
           \/ reqs[i].pc = "fetch" /\ reqs'[i].pc = "failed"
           \/ reqs[i].pc = "json" /\ reqs'[i].pc \in {"ok", "failed"}
                /\ (~ResOk(reqs[i].status) \/ lastBody'.kind = "notjson"))
       => View'.error # Undefined]_vars

(* ---------------- C6 ---------------- *)
\* C6: the payload of a notice submission has exactly one entry under `notice`
\* (the selected notice file) and the supporting files, in order, under
\* `additional_documents`, and nothing else; a Tally payload has exactly one
\* entry, the selected file under `file`.
C6_PayloadShape ==
  [][Len(reqs') = Len(reqs) + 1
       => LET p == payload'
          IN IF page = "gst"
             THEN /\ FormDataGetAll(p, "notice") = <<noticeFile>>
                  /\ FormDataGetAll(p, "additional_documents") = supportFiles
                  /\ Len(p) = 1 + Len(supportFiles)
             ELSE /\ FormDataGetAll(p, "file") = <<file>>
                  /\ Len(p) = 1]_vars

\* a notice submission carrying two different supporting files is in flight
C6_Witness ==
  /\ page = "gst"
  /\ reqs # <<>>
  /\ reqs[Len(reqs)].pc = "fetch"
  /\ Len(payload) = 3
  /\ payload[2] # payload[3]

(* ---------------- C7 ---------------- *)
\* C7: after a notice response that parses to an object the stored reply is the `reply` field,
\* or the empty string when it is absent, the stored missing documents are
\* `missing_documents`, or empty when absent, and the submission has not failed.
C7_NoticeMappingDefaults ==
  [][\A i \in DOMAIN reqs :
       (/\ page = "gst"
        /\ reqs[i].pc = "json"
        /\ reqs'[i].pc \in {"ok", "failed"}
        /\ lastBody'.kind = "json"
        /\ lastBody'.data.t = "obj")
       => LET r == lastBody'.data.o.reply
              m == lastBody'.data.o.missing_documents
          IN /\ reply' = (IF r.t = "val" THEN r ELSE Val(""))
             /\ missing' = (IF m.t = "val" THEN m.v ELSE <<>>)
             /\ reqs'[i].pc = "ok"]_vars

C9_TabularPassThrough ==
  [][\A i \in DOMAIN reqs :
       (/\ page \in {"tally", "tallyData"}
        /\ reqs[i].pc = "json"
        /\ reqs'[i].pc \in {"ok", "failed"}
        /\ lastBody'.kind = "json"
        /\ lastBody'.data.t = "obj")
       => LET o == lastBody'.data.o
          IN /\ (o.rows.t = "val" /\ o.totals.t = "val")
                  => /\ View'.rows = o.rows
                     /\ SeqRange(View'.totals) = {<<k, o.totals.v[k]>> : k \in DOMAIN o.totals.v}
                     /\ Len(View'.totals) = Cardinality(DOMAIN o.totals.v)
             /\ o.totals.t # "val"
                  => (View'.totals = <<>> /\ reqs'[i].pc = "ok")]_vars

(* ---------------- C10 ---------------- *)
\* C10: loading is true exactly while a request of the form is in flight.
C10_LoadingIffInFlight == loading <=> (InFlight # {})

(* ---------------- C11 ---------------- *)
\* C11: once the initial fetch and every creation of the Clients page have
\* completed, the displayed list contains every client whose POST succeeded
\* and every client the initial fetch returned.
C11_NoLostClient ==
  (/\ page = "clients"
   /\ cfetch.pc # "await"
   /\ \A i \in DOMAIN posts : posts[i].pc # "await")
  => /\ \A i \in DOMAIN posts :
          posts[i].pc = "ok" => posts[i].created \in SeqRange(clients)
     /\ cfetch.pc = "ok" => SeqRange(cfetch.data) \subseteq SeqRange(clients)

====
